---- MODULE Spec2Model ----
(***************************************************************************)
(* A model of perfection.py: perfect hash functions for integer keys by    *)
(* the first fit decreasing method.  hash_parameters is modelled as a      *)
(* sequence of steps (prologue, place_items_in_square, one heappop +       *)
(* find_first_fit and one write loop per row, trim and return); make_hash  *)
(* and the mapping class of make_dict work on the returned HashInfo.       *)
(*                                                                         *)
(* Python values: None is the empty tuple <<>> and a present value v is    *)
(* <<v>>; a Python list or tuple is a sequence (position p of the list is  *)
(* element p + 1 of the sequence); an exception is a record                *)
(* [exc |-> its class, at |-> the function that raised it].                *)
(***************************************************************************)
EXTENDS Integers, Sequences, FiniteSets, TLC

\* ------------------------------------------------------------------------
\* Bounds of the inputs
\* ------------------------------------------------------------------------
\* the integer keys run from -NegSpan to MaxKey
NegSpan == 2
MaxKey == 10
\* the dense key universe: every subset of it is an input
DenseKeys == (0 - NegSpan)..MaxKey
\* a sparse key universe whose subsets need a grid of up to 8 x 8
WideKeys == {0, 8, 16, 17, 24, 32, 40, 41, 48, 56}
\* inputs given with a key-to-int adapter: sequences of at most MaxSeqLen keys
MaxSeqLen == 3
AdapterMaxKey == 3
AdapterKeys == 0..AdapterMaxKey
\* the mapping layer: construction keys, query keys and stored values
DictMaxKey == 3
DictKeys == 0..DictMaxKey
QuerySpan == 2
QueryKeys == (0 - QuerySpan)..(DictMaxKey + QuerySpan)
MaxValue == 2
Values == 1..MaxValue

\* ------------------------------------------------------------------------
\* Python values
\* ------------------------------------------------------------------------
None == <<>>
Some(v) == <<v>>
NoError == [exc |-> "ok", at |-> "ok"]
Raise(e, f) == [exc |-> e, at |-> f]

SetMin(S) == CHOOSE m \in S : \A o \in S : m <= o
SetMax(S) == CHOOSE m \in S : \A o \in S : o <= m

\* list(sorted(S))
RECURSIVE SortedSeq(_)
SortedSeq(S) ==
    IF S = {} THEN <<>>
    ELSE LET m == SetMin(S) IN <<m>> \o SortedSeq(S \ {m})

\* xs[i] of a Python list of length n: is position i legal, and which
\* element of the sequence is it (negative positions count from the end)
InRange(n, i) == (0 - n) <= i /\ i < n
Pos(n, i) == IF i < 0 THEN n + i + 1 ELSE i + 1

\* the adapters a caller may pass as to_int: none (identity), or one that
\* halves the key (not injective)
ToIntNames == {"None", "halve"}
ApplyToInt(f, k) == IF f = "halve" THEN k \div 2 ELSE k

\* ------------------------------------------------------------------------
\* heapq, on tuples whose first two components decide the order
\* ------------------------------------------------------------------------
TupleLess(a, b) == a[1] < b[1] \/ (a[1] = b[1] /\ a[2] < b[2])

RECURSIVE SiftDownLoop(_, _, _, _)
SiftDownLoop(heap, startpos, pos, newitem) ==
    IF pos > startpos
    THEN LET parentpos == (pos - 1) \div 2
             parent == heap[parentpos + 1]
         IN IF TupleLess(newitem, parent)
            THEN SiftDownLoop([heap EXCEPT ![pos + 1] = parent],
                              startpos, parentpos, newitem)
            ELSE [heap EXCEPT ![pos + 1] = newitem]
    ELSE [heap EXCEPT ![pos + 1] = newitem]

siftdown(heap, startpos, pos) ==
    SiftDownLoop(heap, startpos, pos, heap[pos + 1])

RECURSIVE SiftUpLoop(_, _, _, _)
SiftUpLoop(heap, startpos, pos, newitem) ==
    LET endpos == Len(heap)
        childpos == 2 * pos + 1
        rightpos == childpos + 1
    IN IF childpos < endpos
       THEN LET c == IF rightpos < endpos
                        /\ ~TupleLess(heap[childpos + 1], heap[rightpos + 1])
                     THEN rightpos ELSE childpos
            IN SiftUpLoop([heap EXCEPT ![pos + 1] = heap[c + 1]],
                          startpos, c, newitem)
       ELSE siftdown([heap EXCEPT ![pos + 1] = newitem], startpos, pos)

siftup(heap, pos) == SiftUpLoop(heap, pos, pos, heap[pos + 1])

heappush(heap, item) == siftdown(Append(heap, item), 0, Len(heap))

heappop(heap) ==
    LET lastelt == heap[Len(heap)]
        rest == SubSeq(heap, 1, Len(heap) - 1)
    IN IF rest = <<>>
       THEN [item |-> lastelt, heap |-> rest]
       ELSE [item |-> rest[1],
             heap |-> siftup([rest EXCEPT ![1] = lastelt], 0)]

RECURSIVE HeapifyFrom(_, _)
HeapifyFrom(x, i) ==
    IF i < 0 THEN x ELSE HeapifyFrom(siftup(x, i), i - 1)

heapify(x) == HeapifyFrom(x, (Len(x) \div 2) - 1)

\* ------------------------------------------------------------------------
\* choose_best_t
\* ------------------------------------------------------------------------
\* int(math.ceil(math.sqrt(m))) for m >= 0
CeilSqrt(m) == CHOOSE s \in 0..m : s * s >= m /\ \A q \in 0..m : q * q >= m => s <= q

choose_best_t(its) ==
    IF its = {} THEN [err |-> Raise("ValueError", "max"), t |-> 0]
    ELSE IF SetMax(its) < 0 THEN [err |-> Raise("ValueError", "sqrt"), t |-> 0]
    ELSE LET minimum_allowable == CeilSqrt(SetMax(its))
         IN IF minimum_allowable * minimum_allowable < Cardinality(its)
            THEN [err |-> NoError, t |-> Cardinality(its)]
            ELSE [err |-> NoError, t |-> minimum_allowable]

\* ------------------------------------------------------------------------
\* place_items_in_square
\* ------------------------------------------------------------------------
\* rows = [(t, y, []) for y in xrange(t)]
EmptyRows(tt) == [p \in 1..tt |-> <<tt, p - 1, <<>>>>]

\* the loop over the items (here in ascending order): IndexError when an
\* item's row is outside the list
RECURSIVE PlaceLoop(_, _, _)
PlaceLoop(todo, tt, rows) ==
    IF todo = <<>> THEN [err |-> NoError, rows |-> rows]
    ELSE LET item == Head(todo)
             x == item % tt
             yy == item \div tt
         IN IF ~InRange(tt, yy)
            THEN [err |-> Raise("IndexError", "place_items_in_square"),
                  rows |-> rows]
            ELSE LET p == Pos(tt, yy)
                     inverse_length == rows[p][1]
                     row_contents == heappush(rows[p][3], <<x, item>>)
                 IN PlaceLoop(Tail(todo), tt,
                              [rows EXCEPT ![p] =
                                  <<inverse_length - 1, yy, row_contents>>])

\* [row for row in rows if row[2]]
PopulatedRows(rows) == SelectSeq(rows, LAMBDA row : row[3] # <<>>)

place_items_in_square(its, tt) ==
    LET placed == PlaceLoop(SortedSeq(its), tt, EmptyRows(tt))
    IN IF placed.err # NoError
       THEN [err |-> placed.err, row_queue |-> <<>>]
       ELSE [err |-> NoError,
             row_queue |-> PopulatedRows(heapify(placed.rows))]

\* ------------------------------------------------------------------------
\* check_columns_fit, find_first_fit and the loops of arrange_rows
\* ------------------------------------------------------------------------
check_columns_fit(unocc, cells, off, row_length) ==
    \A i \in 1..Len(cells) : ((cells[i][1] + off) % row_length) \in unocc

\* find_first_fit gone wrong: only the first free column is tried
find_first_fit_single(unocc, cells, row_length) ==
    LET first_item_x == cells[1][1]
        off == SetMin(unocc) - first_item_x
    IN IF unocc # {} /\ check_columns_fit(unocc, cells, off, row_length)
       THEN [err |-> NoError, offset |-> off]
       ELSE [err |-> Raise("ValueError", "find_first_fit"), offset |-> 0]

\* find_first_fit gone wrong: the offset aligns the last item of the row,
\* not the first, with the free column
find_first_fit_last_x(unocc, cells, row_length) ==
    LET last_item_x == cells[Len(cells)][1]
        fitting == {free_col \in unocc :
                      check_columns_fit(unocc, cells, free_col - last_item_x,
                                        row_length)}
    IN IF fitting = {}
       THEN [err |-> Raise("ValueError", "find_first_fit"), offset |-> 0]
       ELSE [err |-> NoError, offset |-> SetMin(fitting) - last_item_x]

\* the free columns are visited in ascending order; the first one at which
\* the row fits decides the offset
find_first_fit(unocc, cells, row_length) ==
    LET first_item_x == cells[1][1]
        fitting == {free_col \in unocc :
                      check_columns_fit(unocc, cells, free_col - first_item_x,
                                        row_length)}
    IN IF fitting = {}
       THEN [err |-> Raise("ValueError", "find_first_fit"), offset |-> 0]
       ELSE [err |-> NoError, offset |-> SetMin(fitting) - first_item_x]

\* the write loop gone wrong: a column that is not free is left alone
\* (unoccupied_columns.pop(actual_x, None)) and no KeyError is raised
RECURSIVE WriteLoopTolerant(_, _, _, _)
WriteLoopTolerant(todo, off, res, unocc) ==
    IF todo = <<>>
    THEN [err |-> NoError, result |-> res, unoccupied_columns |-> unocc]
    ELSE LET x == Head(todo)[1]
             item == Head(todo)[2]
             actual_x == x + off
         IN IF ~InRange(Len(res), actual_x)
            THEN [err |-> Raise("IndexError", "arrange_rows"),
                  result |-> res, unoccupied_columns |-> unocc]
            ELSE WriteLoopTolerant(
                     Tail(todo), off,
                     [res EXCEPT ![Pos(Len(res), actual_x)] = Some(item)],
                     unocc \ {actual_x})

\* for x, item in row: result[actual_x] = item; del unoccupied_columns[actual_x]
RECURSIVE WriteLoop(_, _, _, _)
WriteLoop(todo, off, res, unocc) ==
    IF todo = <<>>
    THEN [err |-> NoError, result |-> res, unoccupied_columns |-> unocc]
    ELSE LET x == Head(todo)[1]
             item == Head(todo)[2]
             actual_x == x + off
         IN IF ~InRange(Len(res), actual_x)
            THEN [err |-> Raise("IndexError", "arrange_rows"),
                  result |-> res, unoccupied_columns |-> unocc]
            ELSE LET written ==
                         [res EXCEPT ![Pos(Len(res), actual_x)] = Some(item)]
                 IN IF actual_x \notin unocc
                    THEN [err |-> Raise("KeyError", "arrange_rows"),
                          result |-> written, unoccupied_columns |-> unocc]
                    ELSE WriteLoop(Tail(todo), off, written,
                                   unocc \ {actual_x})

\* ------------------------------------------------------------------------
\* trim_nones_from_right
\* ------------------------------------------------------------------------
\* i is the position, counted from the right end, of the first element that
\* is not None (the last position when there is none); the result is xs[:-i],
\* and xs[:-0] is the empty list
trim_nones_from_right(xs) ==
    LET n == Len(xs)
        assigned == {j \in 0..(n - 1) : xs[n - j] # None}
        i == IF assigned = {} THEN n - 1 ELSE SetMin(assigned)
    IN IF n = 0
       THEN [err |-> Raise("UnboundLocalError", "trim_nones_from_right"),
             xs |-> <<>>]
       ELSE [err |-> NoError,
             xs |-> IF i = 0 THEN <<>> ELSE SubSeq(xs, 1, n - i)]

\* ------------------------------------------------------------------------
\* hash_parameters: the steps before and after the packing
\* ------------------------------------------------------------------------
\* the dictionary gone wrong: the first key with an integer is kept
KeyToOriginalFirst(ks, f) ==
    [i \in {ApplyToInt(f, ks[j]) : j \in 1..Len(ks)} |->
        ks[SetMin({j \in 1..Len(ks) : ApplyToInt(f, ks[j]) = i})]]

\* {to_int(original): original for original in keys}: a later key replaces
\* an earlier one with the same integer
KeyToOriginal(ks, f) ==
    [i \in {ApplyToInt(f, ks[j]) : j \in 1..Len(ks)} |->
        ks[SetMax({j \in 1..Len(ks) : ApplyToInt(f, ks[j]) = i})]]

\* the prologue gone wrong: min and max are given a default of 0, so that
\* an empty key sequence goes on with t = 0
hash_parameters_setup_default(ks, mini, f) ==
    LET k2o == KeyToOriginal(ks, f)
        ints == DOMAIN k2o
        off == IF mini /\ ints # {} THEN 0 - SetMin(ints) ELSE 0
        its == {x + off : x \in ints}
        best == IF its = {} THEN [err |-> NoError, t |-> 0]
                ELSE choose_best_t(its)
    IN [err |-> best.err, key_to_original |-> k2o, items |-> its,
        offset |-> off, t |-> best.t]

\* lines 76-93: the integer keys, the offset and t
hash_parameters_setup(ks, mini, f) ==
    LET k2o == KeyToOriginal(ks, f)
        ints == DOMAIN k2o
        failed(e) == [err |-> e, key_to_original |-> k2o, items |-> ints,
                      offset |-> 0, t |-> 0]
    IN IF mini /\ ints = {} THEN failed(Raise("ValueError", "min"))
       ELSE LET off == IF mini THEN 0 - SetMin(ints) ELSE 0
                its == {x + off : x \in ints}
                best == choose_best_t(its)
            IN IF best.err # NoError THEN failed(best.err)
               ELSE IF ~(best.t * best.t >= SetMax(its)
                         /\ best.t * best.t >= Cardinality(its))
               THEN failed(Raise("AssertionError", "hash_parameters"))
               ELSE [err |-> NoError, key_to_original |-> k2o, items |-> its,
                     offset |-> off, t |-> best.t]

\* lines 104-105: the trimmed row translated back to the original keys
TranslateSlots(final, k2o, off) ==
    [p \in 1..Len(final) |->
        IF final[p] # None THEN Some(k2o[final[p][1] - off]) ELSE None]

\* ------------------------------------------------------------------------
\* make_hash and make_dict
\* ------------------------------------------------------------------------
\* perfect_hash(x) of make_hash: IndexError when r has no position y,
\* TypeError when r[y] is None
perfect_hash(params, key) ==
    LET val == ApplyToInt(params.to_int, key) + params.offset
        x == val % params.t
        yy == val \div params.t
        n == Len(params.r)
    IN IF ~InRange(n, yy)
       THEN [err |-> Raise("IndexError", "perfect_hash"), index |-> 0]
       ELSE IF params.r[Pos(n, yy)] = None
       THEN [err |-> Raise("TypeError", "perfect_hash"), index |-> 0]
       ELSE [err |-> NoError, index |-> x + params.r[Pos(n, yy)][1]]

index_or_key_error(params, key) ==
    LET h == perfect_hash(params, key)
        n == Len(params.slots)
    IN IF h.err # NoError THEN h
       ELSE IF ~InRange(n, h.index)
       THEN [err |-> Raise("IndexError", "index_or_key_error"), index |-> 0]
       ELSE IF Some(key) # params.slots[Pos(n, h.index)]
       THEN [err |-> Raise("KeyError", "index_or_key_error"), index |-> 0]
       ELSE h

\* the methods of the mapping class; _arr holds None or (key, value)
getitem(params, a, key) ==
    LET ix == index_or_key_error(params, key)
    IN IF ix.err # NoError THEN [err |-> ix.err, arr |-> a, value |-> None]
       ELSE IF a[Pos(Len(a), ix.index)] = None
       THEN [err |-> Raise("KeyError", "getitem"), arr |-> a, value |-> None]
       ELSE [err |-> NoError, arr |-> a,
             value |-> Some(a[Pos(Len(a), ix.index)][2])]

setitem(params, a, key, value) ==
    LET ix == index_or_key_error(params, key)
    IN IF ix.err # NoError THEN [err |-> ix.err, arr |-> a, value |-> None]
       ELSE [err |-> NoError,
             arr |-> [a EXCEPT ![Pos(Len(a), ix.index)] = <<key, value>>],
             value |-> None]

delitem(params, a, key) ==
    LET ix == index_or_key_error(params, key)
    IN IF ix.err # NoError THEN [err |-> ix.err, arr |-> a, value |-> None]
       ELSE IF a[Pos(Len(a), ix.index)] = None
       THEN [err |-> Raise("KeyError", "delitem"), arr |-> a, value |-> None]
       ELSE [err |-> NoError,
             arr |-> [a EXCEPT ![Pos(Len(a), ix.index)] = None],
             value |-> None]

\* (pair[0] for pair in self._arr if pair is not None) and len(d)
dict_iter(a) == {a[p][1] : p \in {q \in 1..Len(a) : a[q] # None}}
dict_len(a) == Cardinality({q \in 1..Len(a) : a[q] # None})

\* ------------------------------------------------------------------------
\* The state
\* ------------------------------------------------------------------------
VARIABLES
    keys,                \* the key sequence given to hash_parameters
    minimize,            \* the keyword argument minimize
    to_int,              \* the keyword argument to_int ("None" when absent)
    pc,                  \* the position of the call
    error,               \* the exception that ended the call, or NoError
    key_to_original,     \* hash_parameters: integer key -> original key
    items,               \* hash_parameters: the shifted integer keys
    offset,              \* hash_parameters: the offset
    t,                   \* hash_parameters: the table parameter
    row_queue,           \* the priority queue of rows
    unoccupied_columns,  \* arrange_rows: the free columns
    result,              \* arrange_rows: the vector of t * t slots
    displacements,       \* arrange_rows: the displacement vector
    inverse_length,      \* arrange_rows: first component of the popped row
    y,                   \* arrange_rows: row number of the popped row
    row,                 \* arrange_rows: contents of the popped row
    fit_offset,          \* arrange_rows: the offset find_first_fit returned
    final_row,           \* hash_parameters: the trimmed result
    info,                \* the HashInfo returned
    arr,                 \* the mapping object's _arr
    outcome              \* the last call on the mapping object

vars == <<keys, minimize, to_int, pc, error, key_to_original, items, offset,
          t, row_queue, unoccupied_columns, result, displacements,
          inverse_length, y, row, fit_offset, final_row, info, arr, outcome>>

inputVars == <<keys, minimize, to_int>>
setupVars == <<key_to_original, items, offset, t>>
packVars == <<unoccupied_columns, result, displacements>>
rowVars == <<inverse_length, y, row, fit_offset>>
dictVars == <<arr, outcome>>

NoInfo == [t |-> 0, slots |-> <<>>, r |-> <<>>, offset |-> 0, to_int |-> "None"]
NoOutcome == [op |-> "none", key |-> 0, err |-> NoError, value |-> None]

\* the state before hash_parameters is called on ks
Start(ks, mini, f) ==
    /\ keys = ks
    /\ minimize = mini
    /\ to_int = f
    /\ pc = "start"
    /\ error = NoError
    /\ key_to_original = <<>>
    /\ items = {}
    /\ offset = 0
    /\ t = 0
    /\ row_queue = <<>>
    /\ unoccupied_columns = {}
    /\ result = <<>>
    /\ displacements = <<>>
    /\ inverse_length = 0
    /\ y = 0
    /\ row = <<>>
    /\ fit_offset = 0
    /\ final_row = <<>>
    /\ info = NoInfo
    /\ arr = <<>>
    /\ outcome = NoOutcome

\* the sequences of at most n keys of S
SeqsUpTo(S, n) == UNION {[1..m -> S] : m \in 0..n}

\* integer keys: every subset of the dense and of the sparse universe
InitInts ==
    \E S \in (SUBSET DenseKeys) \cup (SUBSET WideKeys), mini \in BOOLEAN :
        Start(SortedSeq(S), mini, "None")

\* keys with an adapter: every short sequence of keys, in any order
InitAdapter ==
    \E ks \in SeqsUpTo(AdapterKeys, MaxSeqLen), mini \in BOOLEAN :
        Start(ks, mini, "halve")

Init == InitInts \/ InitAdapter

\* ------------------------------------------------------------------------
\* hash_parameters, step by step
\* ------------------------------------------------------------------------
Fail(e) == pc' = "error" /\ error' = e

\* lines 76-93
Setup ==
    /\ pc = "start"
    /\ LET s == hash_parameters_setup(keys, minimize, to_int)
       IN IF s.err # NoError
          THEN Fail(s.err) /\ UNCHANGED setupVars
          ELSE /\ pc' = "place"
               /\ key_to_original' = s.key_to_original
               /\ items' = s.items
               /\ offset' = s.offset
               /\ t' = s.t
               /\ UNCHANGED error
    /\ UNCHANGED <<inputVars, row_queue, packVars, rowVars, final_row, info,
                   dictVars>>

\* line 97, and lines 187-193 of arrange_rows
Place ==
    /\ pc = "place"
    /\ LET placed == place_items_in_square(items, t)
       IN IF placed.err # NoError
          THEN Fail(placed.err) /\ UNCHANGED <<row_queue, packVars>>
          ELSE /\ pc' = "arrange"
               /\ row_queue' = placed.row_queue
               /\ unoccupied_columns' = 0..(t * t - 1)
               /\ result' = [p \in 1..(t * t) |-> None]
               /\ displacements' = [p \in 1..t |-> None]
               /\ UNCHANGED error
    /\ UNCHANGED <<inputVars, setupVars, rowVars, final_row, info, dictVars>>

\* lines 195-199: the next row and its offset
PopRow ==
    /\ pc = "arrange"
    /\ row_queue # <<>>
    /\ LET popped == heappop(row_queue)
           fit == find_first_fit(unoccupied_columns, popped.item[3], t * t)
       IN /\ row_queue' = popped.heap
          /\ inverse_length' = popped.item[1]
          /\ y' = popped.item[2]
          /\ row' = popped.item[3]
          /\ IF fit.err # NoError
             THEN Fail(fit.err) /\ UNCHANGED fit_offset
             ELSE pc' = "write" /\ fit_offset' = fit.offset /\ UNCHANGED error
    /\ UNCHANGED <<inputVars, setupVars, packVars, final_row, info, dictVars>>

\* lines 203-207: the row is written at its offset
WriteRow ==
    /\ pc = "write"
    /\ LET w == WriteLoop(row, fit_offset, result, unoccupied_columns)
       IN /\ displacements' =
                 [displacements EXCEPT ![Pos(t, y)] = Some(fit_offset)]
          /\ result' = w.result
          /\ unoccupied_columns' = w.unoccupied_columns
          /\ IF w.err # NoError
             THEN Fail(w.err)
             ELSE pc' = "arrange" /\ UNCHANGED error
    /\ UNCHANGED <<inputVars, setupVars, row_queue, rowVars, final_row, info,
                   dictVars>>

\* line 209 and lines 104-114: trim, translate and return
Finish ==
    /\ pc = "arrange"
    /\ row_queue = <<>>
    /\ LET trimmed == trim_nones_from_right(result)
       IN IF trimmed.err # NoError
          THEN Fail(trimmed.err) /\ UNCHANGED <<final_row, info>>
          ELSE /\ pc' = "done"
               /\ final_row' = trimmed.xs
               /\ info' = [t |-> t,
                           slots |-> TranslateSlots(trimmed.xs,
                                                    key_to_original, offset),
                           r |-> displacements,
                           offset |-> offset,
                           to_int |-> to_int]
               /\ UNCHANGED error
    /\ UNCHANGED <<inputVars, setupVars, row_queue, packVars, rowVars,
                   dictVars>>

Next == Setup \/ Place \/ PopRow \/ WriteRow \/ Finish

Spec == Init /\ [][Next]_vars

\* ------------------------------------------------------------------------
\* The mapping class of make_dict
\* ------------------------------------------------------------------------
InitDict ==
    \E S \in SUBSET DictKeys, mini \in BOOLEAN :
        Start(SortedSeq(S), mini, "None")

\* init: self._arr = [None] * hash_func.length
DictNew ==
    /\ pc = "done"
    /\ pc' = "dict"
    /\ arr' = [p \in 1..Len(info.slots) |-> None]
    /\ UNCHANGED <<inputVars, error, setupVars, row_queue, packVars, rowVars,
                   final_row, info, outcome>>

DictCall(op, key, res) ==
    /\ pc = "dict"
    /\ arr' = res.arr
    /\ outcome' = [op |-> op, key |-> key, err |-> res.err,
                   value |-> res.value]
    /\ UNCHANGED <<inputVars, pc, error, setupVars, row_queue, packVars,
                   rowVars, final_row, info>>

DictGet == \E key \in QueryKeys : DictCall("get", key, getitem(info, arr, key))

DictSet ==
    \E key \in QueryKeys, value \in Values :
        DictCall("set", key, setitem(info, arr, key, value))

DictDel == \E key \in QueryKeys : DictCall("del", key, delitem(info, arr, key))

NextDict ==
    Setup \/ Place \/ PopRow \/ WriteRow \/ Finish
       \/ DictNew \/ DictGet \/ DictSet \/ DictDel

SpecDict == InitDict /\ [][NextDict]_vars

\* ------------------------------------------------------------------------
\* Properties
\* ------------------------------------------------------------------------
KeySet == {keys[j] : j \in 1..Len(keys)}

\* to_int is injective over the keys
AdapterInjective ==
    \A a, b \in KeySet : a # b => ApplyToInt(to_int, a) # ApplyToInt(to_int, b)

\* the shifted integer keys are all non-negative
NonNegative == \A item \in items : item >= 0

Assigned(xs) == {p \in 1..Len(xs) : xs[p] # None}

\* C1: round trip - on a returned HashInfo built from integer keys, every
\* key k is found in slots at the index (k + offset) % t + r[(k + offset) // t]
RoundTrip ==
    (pc = "done" /\ to_int = "None") =>
        \A k \in KeySet :
            LET h == perfect_hash(info, k)
            IN /\ h.err = NoError
               /\ InRange(Len(info.slots), h.index)
               /\ info.slots[Pos(Len(info.slots), h.index)] = Some(k)

\* C2: injectivity - on a returned HashInfo two distinct keys never get the
\* same index, and no column of the packed vector was written by two items
\* (as many columns are assigned as there are keys)
Injectivity ==
    (pc = "done" /\ AdapterInjective) =>
        /\ \A k1, k2 \in KeySet :
              /\ perfect_hash(info, k1).err = NoError
              /\ k1 # k2 =>
                    perfect_hash(info, k1).index # perfect_hash(info, k2).index
        /\ Cardinality(Assigned(result)) = Cardinality(items)

InjectivityWitness ==
    /\ pc = "done"
    /\ AdapterInjective
    /\ Cardinality(KeySet) >= 4
    /\ Cardinality(Assigned(displacements)) >= 2

\* C3: trim correctness - the trimmed vector is the packed vector up to its
\* last assigned slot
TrimCorrect ==
    (pc = "done" /\ Assigned(result) # {}) =>
        final_row = SubSeq(result, 1, SetMax(Assigned(result)))

\* the keys of the sequence that no later key with the same integer replaces
LastKeys ==
    {keys[j] : j \in {i \in 1..Len(keys) :
                        \A l \in (i + 1)..Len(keys) :
                            ApplyToInt(to_int, keys[l]) # ApplyToInt(to_int, keys[i])}}

\* C4 as stated: a key sequence on which to_int is not injective is rejected
\* and no HashInfo is returned for it; stated for the results that have
\* slots, so that a result emptied by the trim (C3) is not what refutes it
NonInjectiveRejected ==
    ~AdapterInjective => ~(pc = "done" /\ Assigned(info.slots) # {})

\* C4 as amended: no InvalidKeySet is raised; for each integer the last key
\* mapped to it is kept, and the slots of a returned HashInfo hold kept keys
\* only, the earlier keys being dropped
NonInjectiveCollapses ==
    /\ error.exc # "InvalidKeySet"
    /\ pc \notin {"start", "error"} =>
          /\ {key_to_original[i] : i \in DOMAIN key_to_original} = LastKeys
          /\ \A i \in DOMAIN key_to_original :
                ApplyToInt(to_int, key_to_original[i]) = i
    /\ pc = "done" =>
          \A k \in KeySet \ LastKeys :
              \A p \in 1..Len(info.slots) : info.slots[p] # Some(k)

NonInjectiveWitness ==
    /\ pc = "done"
    /\ ~AdapterInjective
    /\ Assigned(info.slots) # {}
    /\ keys[1] \notin LastKeys

\* C5: an empty key sequence fails with an error in the prologue, before
\* anything is placed or packed, and no HashInfo is returned
EmptyRejected ==
    keys = <<>> =>
        /\ pc \in {"start", "error"}
        /\ pc = "error" => error.exc = "ValueError"
        /\ row_queue = <<>>
        /\ result = <<>>
        /\ info = NoInfo

EmptyWitness == keys = <<>> /\ pc = "error" /\ error.at = "max"

\* C6: on the mapping object, getting or deleting a key that is not stored,
\* and setting a key outside the construction set, raises KeyError and
\* leaves the stored entries unchanged
AbsentKeyStep ==
    (pc = "dict" /\ pc' = "dict" /\ outcome'.op # "none") =>
        ((\/ outcome'.op \in {"get", "del"} /\ outcome'.key \notin dict_iter(arr)
          \/ outcome'.op = "set" /\ outcome'.key \notin KeySet)
         => /\ outcome'.err.exc = "KeyError"
            /\ arr' = arr
            /\ dict_len(arr') = dict_len(arr))

AbsentKey == [][AbsentKeyStep]_vars

\* C7: with non-negative shifted keys find_first_fit never fails, packing
\* raises nothing, and every occupied row has got its displacement when
\* the queue is drained
PackingNeverFails ==
    NonNegative =>
        /\ error.at \notin {"find_first_fit", "arrange_rows"}
        /\ pc = "done" =>
              /\ row_queue = <<>>
              /\ Assigned(displacements) = {Pos(t, item \div t) : item \in items}

PackingWitness ==
    /\ pc = "done"
    /\ NonNegative
    /\ Cardinality(Assigned(displacements)) >= 3
    /\ \E p \in Assigned(displacements) : displacements[p][1] >= t

\* C8: with non-negative shifted keys and the chosen t every key has a row
\* and a column inside the grid, and place_items_in_square places them all
GridRowsInRange ==
    NonNegative =>
        /\ pc = "place" =>
              \A item \in items :
                  /\ 0 <= item \div t /\ item \div t < t
                  /\ 0 <= item % t /\ item % t < t
        /\ error.at # "place_items_in_square"

\* C9: the row popped is the largest row not yet packed, the one with the
\* smallest row number among the largest
LargestRowFirst ==
    (pc = "write" /\ NonNegative) =>
        \A q \in 1..Len(row_queue) :
            TupleLess(<<inverse_length, y>>, row_queue[q])

\* C10: the columns x + d of a row that find_first_fit placed are inside the
\* vector and free, so the write is to the columns that were checked; and
\* the lookup x + r[y] of an integer key is the column that holds it
NoWrapAround ==
    /\ pc = "write" =>
          \A i \in 1..Len(row) :
              /\ 0 <= row[i][1] + fit_offset
              /\ row[i][1] + fit_offset < t * t
              /\ (row[i][1] + fit_offset) \in unoccupied_columns
    /\ pc = "done" =>
          \A item \in items :
              LET d == displacements[Pos(t, item \div t)]
              IN /\ d # None
                 /\ 0 <= (item % t) + d[1]
                 /\ (item % t) + d[1] < t * t
                 /\ result[(item % t) + d[1] + 1] = Some(item)

NoWrapWitness ==
    /\ pc = "write"
    /\ Len(row) >= 2
    /\ fit_offset >= t
    /\ row[Len(row)][1] + fit_offset >= 2 * t

====
